---------------------------- MODULE Spec2Model ----------------------------
(***************************************************************************)
(* Forex calendar scraper: the reshaping of scraped rows (utils.py), the   *)
(* lookup tables (config.py, scraper.py) and the enrichment pipeline       *)
(* enrich_data with its helpers (scraper.py).                              *)
(*                                                                         *)
(* Representation.  A text is the sequence of its characters.  A date      *)
(* label is the sequence of its whitespace-separated tokens.  A time label *)
(* is a record: a clock string "h:mm(am|pm)" or some other text.  Epoch    *)
(* times are counted in minutes since 2024-01-01T00:00Z (every event time  *)
(* the code produces is a whole minute of 2024, and the cut against "now"  *)
(* is the same after flooring "now" to the minute).  Floating-point        *)
(* factors are exact rationals [n, d] in lowest terms, sentiment scores    *)
(* are hundredths.                                                         *)
(***************************************************************************)
EXTENDS Integers, Sequences, FiniteSets, TLC

VARIABLES
    \* ---- infer_category called on its own
    c_headline, c_category, c_calls,
    \* ---- one run of enrich_data
    input,                  \* the rows of the frame passed in
    columns,                \* the column labels of the frame  df
    df,                     \* the rows of the frame  df
    pc,                     \* the statement enrich_data is at
    err,                    \* the exception that ended the run, if any
    clock,                  \* the wall clock, time.time()
    now_ms,                 \* the local  now_ms
    final_severities,       \* the list of the same name
    anticipated_severities, \* the list of the same name
    calls,                  \* the calls of fetch_news_coverage so far
    out,                    \* the frame returned
    \* ---- one run of reformat_scraped_data
    data,                   \* the scraped rows passed in
    r_pc,                   \* the statement reformat_scraped_data is at
    r_next,                 \* the place in  data  of the row the loop takes next
    current_date,           \* the local of the same name
    current_time,           \* the local of the same name
    structured_rows,        \* the list of the same name
    df_raw,                 \* the rows of the frame returned
    \* ---- fetch_news_coverage and compute_coverage_factor called on their own
    k_keyword, k_time,      \* the arguments of fetch_news_coverage
    k_response,             \* what the service answers
    k_pc,                   \* the call the caller is at
    k_params,               \* the query sent
    k_count,                \* what fetch_news_coverage returned
    k_factor                \* what compute_coverage_factor returned

classifier_vars == <<c_headline, c_category, c_calls>>

enrich_vars == <<input, columns, df, pc, err, clock, now_ms,
                 final_severities, anticipated_severities, calls, out>>

reformat_vars == <<data, r_pc, r_next, current_date, current_time,
                   structured_rows, df_raw>>

coverage_vars == <<k_keyword, k_time, k_response, k_pc, k_params, k_count, k_factor>>

vars == <<c_headline, c_category, c_calls,
          input, columns, df, pc, err, clock, now_ms,
          final_severities, anticipated_severities, calls, out,
          data, r_pc, r_next, current_date, current_time, structured_rows, df_raw,
          k_keyword, k_time, k_response, k_pc, k_params, k_count, k_factor>>

-----------------------------------------------------------------------------
(* Bounds of the model *)

MaxWords == 3
MaxRows == 2
MaxScraped == 3

-----------------------------------------------------------------------------
(* Texts *)

UpperCase == <<"A","B","C","D","E","F","G","H","I","J","K","L","M",
               "N","O","P","Q","R","S","T","U","V","W","X","Y","Z">>
LowerCase == <<"a","b","c","d","e","f","g","h","i","j","k","l","m",
               "n","o","p","q","r","s","t","u","v","w","x","y","z">>

lower_char(c) ==
    IF \E i \in 1..Len(UpperCase) : UpperCase[i] = c
    THEN LowerCase[CHOOSE i \in 1..Len(UpperCase) : UpperCase[i] = c]
    ELSE c

\* str.lower()
lower(s) == [i \in 1..Len(s) |-> lower_char(s[i])]

\* Python's  k in s  on strings: k occurs in s as a contiguous run
contains(s, k) ==
    \E j \in 0..(Len(s) - Len(k)) : \A i \in 1..Len(k) : s[j + i] = k[i]

RECURSIVE Join(_)
\* the words of a headline, separated by single blanks
Join(ws) ==
    IF ws = <<>> THEN <<>>
    ELSE IF Len(ws) = 1 THEN ws[1]
    ELSE ws[1] \o <<" ">> \o Join(Tail(ws))

-----------------------------------------------------------------------------
(* Lookup tables *)

ALLOWED_CURRENCY_CODES == {"USD", "EUR", "GBP", "JPY", "AUD"}
ALLOWED_IMPACT_COLORS == {"red", "orange", "yellow", "gray"}

COLOR_SEVERITY_MAP ==
    [c \in {"red", "orange", "yellow", "gray"} |->
        CASE c = "red" -> <<"High", 3>>
          [] c = "orange" -> <<"Medium", 2>>
          [] c = "yellow" -> <<"Low", 1>>
          [] c = "gray" -> <<"Low", 1>>]

\* the dict in insertion order, which is the order  .items()  iterates in
EVENT_CATEGORIES == <<
    [k |-> <<"N","o","n","-","F","a","r","m"," ",
             "E","m","p","l","o","y","m","e","n","t">>, v |-> "NFP"],
    [k |-> <<"G","D","P">>, v |-> "GDP"],
    [k |-> <<"I","n","t","e","r","e","s","t"," ","R","a","t","e"," ",
             "D","e","c","i","s","i","o","n">>, v |-> "RateDecision"],
    [k |-> <<"C","P","I">>, v |-> "Inflation"],
    [k |-> <<"F","O","M","C">>, v |-> "MonetaryPolicy"] >>

GEOPOLITICAL_KEYWORDS == <<
    <<"w","a","r">>,
    <<"s","a","n","c","t","i","o","n","s">>,
    <<"u","n","r","e","s","t">>,
    <<"d","i","s","a","s","t","e","r">>,
    <<"t","e","r","r","o","r">>,
    <<"c","o","n","f","l","i","c","t">> >>

COMMODITY_KEYWORDS == <<
    <<"m","i","n","i","n","g"," ","o","u","t","p","u","t">>,
    <<"m","i","n","i","n","g">>,
    <<"r","e","s","e","r","v","e","s">>,
    <<"I","M","F">>,
    <<"g","o","l","d"," ","s","u","p","p","l","y">> >>

-----------------------------------------------------------------------------
(* Classifier *)

RECURSIVE scan_categories(_, _)
\* the for loop of infer_category from table entry n on
scan_categories(headline, n) ==
    IF n > Len(EVENT_CATEGORIES) THEN "Other"
    ELSE IF contains(lower(headline), lower(EVENT_CATEGORIES[n].k))
         THEN EVENT_CATEGORIES[n].v
         ELSE scan_categories(headline, n + 1)

\* the loop keeping the last match instead of returning at the first
infer_category_last_match(headline) ==
    LET matches == { n \in 1..Len(EVENT_CATEGORIES) :
                        contains(lower(headline), lower(EVENT_CATEGORIES[n].k)) }
    IN  IF matches = {} THEN "Other"
        ELSE EVENT_CATEGORIES[CHOOSE n \in matches : \A m \in matches : m <= n].v

infer_category(headline) == scan_categories(headline, 1)

contains_keyword(text, keywords) ==
    \E n \in 1..Len(keywords) : contains(lower(text), lower(keywords[n]))

-----------------------------------------------------------------------------
(* Time Normalizer *)

\* what  %b  accepts, in calendar order
MONTH_ABBR == <<"Jan", "Feb", "Mar", "Apr", "May", "Jun",
                "Jul", "Aug", "Sep", "Oct", "Nov", "Dec">>
\* the numerals  %d  accepts; a numeral's place is its value
DAY_NUMERALS == <<"1", "2", "3", "4", "5", "6", "7", "8", "9", "10",
                  "11", "12", "13", "14", "15", "16", "17", "18", "19", "20",
                  "21", "22", "23", "24", "25", "26", "27", "28", "29", "30",
                  "31">>
\* the calendar of the year the code assumes, 2024
DaysInMonth == <<31, 29, 31, 30, 31, 30, 31, 31, 30, 31, 30, 31>>
DaysBeforeMonth == <<0, 31, 60, 91, 121, 152, 182, 213, 244, 274, 305, 335>>

IndexOf(seq, x) ==
    IF \E n \in 1..Len(seq) : seq[n] = x
    THEN CHOOSE n \in 1..Len(seq) : seq[n] = x
    ELSE 0

\* a time label that reads as a 12-hour clock string, and one that does not
Clock(h, m, p) == [kind |-> "clock", h |-> h, m |-> m, p |-> p]
Words(t) == [kind |-> "words", h |-> 0, m |-> 0, p |-> t]

\* datetime.strptime(f"{month_str} {day_str}, 2024 {time_str}", "%b %d, %Y %I:%M%p"):
\* whether the string matches the format and names a date of the calendar
strptime_matches(month_str, day_str, time_str) ==
    /\ IndexOf(MONTH_ABBR, month_str) # 0
    /\ IndexOf(DAY_NUMERALS, day_str) # 0
    /\ IndexOf(DAY_NUMERALS, day_str) <= DaysInMonth[IndexOf(MONTH_ABBR, month_str)]
    /\ time_str.kind = "clock"
    /\ time_str.h \in 1..12
    /\ time_str.m \in 0..59
    /\ time_str.p \in {"am", "pm"}

\* the instant the matched string names, localized to UTC: minutes of 2024
strptime_utc(month_str, day_str, time_str) ==
    LET month == IndexOf(MONTH_ABBR, month_str)
        day == IndexOf(DAY_NUMERALS, day_str)
        hour == (time_str.h % 12) + (IF time_str.p = "pm" THEN 12 ELSE 0)
    IN  ((DaysBeforeMonth[month] + day - 1) * 24 + hour) * 60 + time_str.m

\* the value  None  in the column  time(ms)
None_ms == -1

\* convert_to_utc_ms: a time, None, or the ValueError strptime raises
convert_to_utc_ms(date_str, time_str) ==
    LET parts == date_str
    IN  IF Len(parts) >= 3
        THEN IF strptime_matches(parts[2], parts[3], time_str)
             THEN [raises |-> "", value |-> strptime_utc(parts[2], parts[3], time_str)]
             ELSE [raises |-> "ValueError", value |-> None_ms]
        ELSE [raises |-> "", value |-> None_ms]

-----------------------------------------------------------------------------
(* Rationals *)

RECURSIVE GCD(_, _)
GCD(a, b) == IF b = 0 THEN a ELSE GCD(b, a % b)

Rat(n, d) == [null |-> FALSE, n |-> n \div GCD(n, d), d |-> d \div GCD(n, d)]
Mul(a, b) == Rat(a.n * b.n, a.d * b.d)
One == Rat(1, 1)
\* the value  None  in a list of severities
None == [null |-> TRUE, n |-> 0, d |-> 1]

-----------------------------------------------------------------------------
(* Coverage Adapter *)

JsonInt(v) == [t |-> "int", v |-> v]
JsonNull == [t |-> "null", v |-> 0]

\* what the GET of line 68 and the two calls after it can meet
Responses ==
    { [kind |-> k, total |-> JsonNull] :
        k \in {"ConnectionError", "Timeout", "HTTPError", "JSONDecodeError",
               "not_a_dict", "no_totalResults"} }
    \cup { [kind |-> "totalResults", total |-> JsonInt(v)] : v \in {-1, 0, 1, 5, 6} }
    \cup { [kind |-> "totalResults", total |-> JsonNull] }

\* fetch_news_coverage, given what the service answers: the try block yields
\* data.get("totalResults", 0) as it is, the bare except yields 0
fetch_news_coverage(keyword, event_time_ms, response) ==
    IF response.kind = "totalResults" THEN response.total ELSE JsonInt(0)

\* the window of the query: from_time and to_time, one day either side
query_window(event_time_ms) ==
    [from |-> event_time_ms - 24 * 60, to |-> event_time_ms + 24 * 60]

-----------------------------------------------------------------------------
(* Factor Calculators *)

\* the middle tier closed at 4 instead of 5
compute_coverage_factor_tier_below_5(coverage_count) ==
    IF coverage_count.t = "int" /\ coverage_count.v = 0
    THEN [raises |-> "", value |-> Rat(10, 10)]
    ELSE IF coverage_count.t # "int"
    THEN [raises |-> "TypeError", value |-> One]
    ELSE IF 1 <= coverage_count.v /\ coverage_count.v < 5
    THEN [raises |-> "", value |-> Rat(11, 10)]
    ELSE [raises |-> "", value |-> Rat(12, 10)]

\* compute_coverage_factor: a factor, or the TypeError of  1 <= coverage_count
\* when the count is not a number
compute_coverage_factor(coverage_count) ==
    IF coverage_count.t = "int" /\ coverage_count.v = 0
    THEN [raises |-> "", value |-> Rat(10, 10)]
    ELSE IF coverage_count.t # "int"
    THEN [raises |-> "TypeError", value |-> One]
    ELSE IF 1 <= coverage_count.v /\ coverage_count.v <= 5
    THEN [raises |-> "", value |-> Rat(11, 10)]
    ELSE [raises |-> "", value |-> Rat(12, 10)]

Abs(x) == IF x < 0 THEN -x ELSE x

\* sentiment_factor of a score in hundredths
sentiment_factor(s) ==
    IF s < -5 THEN Rat(1000 + Abs(s), 1000) ELSE One

\* 1 + math.log1p(historical_volatility), the volatility being the 0.0 of line 120
vol_factor(historical_volatility) == One

\* whether  row['headline']  of line 152 finds its label
headline_present(cols) == "headline" \in cols

\* whether  'USD' in df['currency'].unique()  for the frame  df  of the closure
usd_in_frame(frame) == \E n \in 1..Len(frame) : frame[n].currency = "USD"

\* domain_factor of a row whose label  headline  exists
domain_factor(row, frame) ==
    LET f1 == IF row.category \in {"RateDecision", "MonetaryPolicy"}
              THEN Rat(12, 10) ELSE One
        f2 == IF row.category = "Inflation" THEN Mul(f1, Rat(115, 100)) ELSE f1
        f3 == IF row.category = "NFP" THEN Mul(f2, Rat(12, 10)) ELSE f2
        f4 == IF contains_keyword(row.headline, GEOPOLITICAL_KEYWORDS)
              THEN Mul(f3, Rat(125, 100)) ELSE f3
        f5 == IF contains_keyword(row.headline, COMMODITY_KEYWORDS)
              THEN Mul(f4, Rat(11, 10)) ELSE f4
        f6 == IF row.headline # <<>> /\ usd_in_frame(frame)
              THEN Mul(f5, Rat(11, 10)) ELSE f5
    IN  f6

-----------------------------------------------------------------------------
(* The frames enrich_data is run on *)

RawRow(date, time, currency, impact, event) ==
    [date |-> date, time |-> time, currency |-> currency, impact |-> impact,
     event |-> event]

RawRows == {
    RawRow(<<"Wed", "Oct", "2">>, Clock(8, 30, "am"), "USD", "red",
           Join(<< <<"F","e","d">>, <<"F","O","M","C">>, <<"R","a","t","e">>,
                   <<"D","e","c","i","s","i","o","n">> >>)),
    RawRow(<<"Thu", "Oct", "3">>, Clock(2, 0, "pm"), "EUR", "orange",
           Join(<< <<"C","P","I">>, <<"y","/","y">> >>)),
    RawRow(<<"Oct", "2">>, Clock(8, 30, "am"), "USD", "yellow",
           Join(<< <<"F","l","a","s","h">>, <<"G","D","P">> >>)),
    RawRow(<<"Wed", "Oct", "2">>, Clock(8, 30, "am"), "CHF", "red",
           Join(<< <<"T","r","a","d","e">>, <<"W","a","r">> >>)),
    RawRow(<<"Wed", "Oct", "2">>, Words("All Day"), "EUR", "gray",
           Join(<< <<"B","a","n","k">>, <<"H","o","l","i","d","a","y">> >>)),
    RawRow(<<"Thu", "Oct", "3">>, Clock(2, 0, "pm"), "GBP", "impact",
           Join(<< <<"M","i","n","i","n","g">>, <<"O","u","t","p","u","t">> >>)),
    RawRow(<<"Thu", "Oct", "3">>, Clock(2, 0, "pm"), "JPY", "yellow",
           Join(<< <<"F","o","r","w","a","r","d">>, <<"M","i","n","i","n","g">> >>)),
    RawRow(<<"Wed", "Oct", "2">>, Clock(8, 30, "am"), "AUD", "gray", <<>>) }

Batches == UNION { [1..n -> RawRows] : n \in 0..MaxRows }

\* the labels of the frame reformat_scraped_data builds and main reads back
RawColumns == {"date", "time", "currency", "impact", "event"}

\* the times the rows above can parse to, and the minute before each
EventTimes ==
    { convert_to_utc_ms(r.date, r.time).value :
        r \in { q \in RawRows : convert_to_utc_ms(q.date, q.time).value # None_ms } }
ClockValues == EventTimes \cup { t - 1 : t \in EventTimes }

\* sentiment scores (hundredths) the analyzer may give a headline
Scores == {-50, -5, 30}

\* a row of  df ; a field is meaningful once its label is in  columns .
\* src is the row's index label, its place in the input.
FrameRow(n, raw) ==
    [src |-> n, date |-> raw.date, time |-> raw.time, currency |-> raw.currency,
     impact |-> raw.impact, event |-> raw.event, headline |-> raw.event,
     time_ms |-> None_ms, severity_category |-> "", severity_level |-> 0,
     category |-> "", sentiment_score |-> 0, historical_volatility |-> 0,
     future_event |-> FALSE, domain_factor |-> One, sentiment_factor |-> One]

\* The frame main passes has the five labels of RawColumns.  enrich_data
\* reads a sixth,  headline , which only a frame built by another caller can
\* carry; such a frame is taken to hold the event text under that label too.
EnrichInit ==
    /\ input \in Batches
    /\ columns \in {RawColumns, RawColumns \cup {"headline"}}
    /\ df = [n \in 1..Len(input) |-> FrameRow(n, input[n])]
    /\ pc = "filter"
    /\ err = ""
    /\ clock \in ClockValues
    /\ now_ms = None_ms
    /\ final_severities = <<>>
    /\ anticipated_severities = <<>>
    /\ calls = <<>>
    /\ out = <<>>

Raise(e) ==
    /\ pc' = "raised"
    /\ err' = e

\* lines 101-102
FilterRows ==
    /\ pc = "filter"
    /\ df' = SelectSeq(df, LAMBDA r : /\ r.currency \in ALLOWED_CURRENCY_CODES
                                      /\ r.impact \in ALLOWED_IMPACT_COLORS)
    /\ pc' = "convert"
    /\ UNCHANGED <<classifier_vars, reformat_vars, coverage_vars>>
    /\ UNCHANGED <<input, columns, err, clock, now_ms, final_severities,
                   anticipated_severities, calls, out>>

\* lines 105-106.  DataFrame.apply(axis=1) of a frame without rows gives a
\* frame back, and setting one label to a frame of five columns is a ValueError.
ConvertTimes ==
    /\ pc = "convert"
    /\ LET converted == [n \in 1..Len(df) |-> convert_to_utc_ms(df[n].date, df[n].time)]
       IN  IF df = <<>>
           THEN Raise("ValueError: set frame") /\ UNCHANGED <<df, columns>>
           ELSE IF \E n \in 1..Len(df) : converted[n].raises # ""
           THEN Raise("ValueError: strptime") /\ UNCHANGED <<df, columns>>
           ELSE /\ df' = SelectSeq(
                            [n \in 1..Len(df) |->
                                [df[n] EXCEPT !.time_ms = converted[n].value]],
                            LAMBDA r : r.time_ms # None_ms)
                /\ columns' = columns \cup {"time(ms)"}
                /\ pc' = "severity"
                /\ err' = err
    /\ UNCHANGED <<classifier_vars, reformat_vars, coverage_vars>>
    /\ UNCHANGED <<input, clock, now_ms, final_severities,
                   anticipated_severities, calls, out>>

\* lines 109-110
MapSeverity ==
    /\ pc = "severity"
    /\ IF \E n \in 1..Len(df) : df[n].impact \notin DOMAIN COLOR_SEVERITY_MAP
       THEN Raise("KeyError: impact") /\ UNCHANGED <<df, columns>>
       ELSE /\ df' = [n \in 1..Len(df) |->
                        [df[n] EXCEPT
                            !.severity_category = COLOR_SEVERITY_MAP[df[n].impact][1],
                            !.severity_level = COLOR_SEVERITY_MAP[df[n].impact][2]]]
            /\ columns' = columns \cup {"severity_category", "severity_level"}
            /\ pc' = "category"
            /\ err' = err
    /\ UNCHANGED <<classifier_vars, reformat_vars, coverage_vars>>
    /\ UNCHANGED <<input, clock, now_ms, final_severities,
                   anticipated_severities, calls, out>>

\* line 113
InferCategories ==
    /\ pc = "category"
    /\ df' = [n \in 1..Len(df) |->
                [df[n] EXCEPT !.category = infer_category(df[n].event)]]
    /\ columns' = columns \cup {"category"}
    /\ pc' = "sentiment"
    /\ UNCHANGED <<classifier_vars, reformat_vars, coverage_vars>>
    /\ UNCHANGED <<input, err, clock, now_ms, final_severities,
                   anticipated_severities, calls, out>>

\* lines 116-120: the analyzer's score of each headline, the same for the same
\* text, and the placeholder volatility
ScoreSentiment ==
    /\ pc = "sentiment"
    /\ \E score \in [1..Len(df) -> Scores] :
          /\ \A m, n \in 1..Len(df) : df[m].event = df[n].event => score[m] = score[n]
          /\ df' = [n \in 1..Len(df) |->
                      [df[n] EXCEPT !.sentiment_score = score[n],
                                    !.historical_volatility = 0]]
    /\ columns' = columns \cup {"sentiment_score", "historical_volatility"}
    /\ pc' = "now"
    /\ UNCHANGED <<classifier_vars, reformat_vars, coverage_vars>>
    /\ UNCHANGED <<input, err, clock, now_ms, final_severities,
                   anticipated_severities, calls, out>>

\* the cut taken as  >=  instead of  >
SampleNow_inclusive ==
    /\ pc = "now"
    /\ now_ms' = clock
    /\ df' = [n \in 1..Len(df) |->
                [df[n] EXCEPT !.future_event = (df[n].time_ms >= clock)]]
    /\ columns' = columns \cup {"future_event"}
    /\ pc' = "domain"
    /\ UNCHANGED <<classifier_vars, reformat_vars, coverage_vars>>
    /\ UNCHANGED <<input, err, clock, final_severities,
                   anticipated_severities, calls, out>>

\* lines 123-124
SampleNow ==
    /\ pc = "now"
    /\ now_ms' = clock
    /\ df' = [n \in 1..Len(df) |->
                [df[n] EXCEPT !.future_event = (df[n].time_ms > clock)]]
    /\ columns' = columns \cup {"future_event"}
    /\ pc' = "domain"
    /\ UNCHANGED <<classifier_vars, reformat_vars, coverage_vars>>
    /\ UNCHANGED <<input, err, clock, final_severities,
                   anticipated_severities, calls, out>>

\* lines 144-162: as for line 105 when the frame has no rows; otherwise the
\* first row's  row['headline']  is a KeyError unless the frame has that label
ApplyDomainFactor ==
    /\ pc = "domain"
    /\ IF df = <<>>
       THEN Raise("ValueError: set frame") /\ UNCHANGED <<df, columns>>
       ELSE IF ~headline_present(columns)
       THEN Raise("KeyError: headline") /\ UNCHANGED <<df, columns>>
       ELSE /\ df' = [n \in 1..Len(df) |->
                        [df[n] EXCEPT !.domain_factor = domain_factor(df[n], df)]]
            /\ columns' = columns \cup {"domain_factor"}
            /\ pc' = "sentiment_factor"
            /\ err' = err
    /\ UNCHANGED <<classifier_vars, reformat_vars, coverage_vars>>
    /\ UNCHANGED <<input, clock, now_ms, final_severities,
                   anticipated_severities, calls, out>>

\* lines 164-170
ApplySentimentFactor ==
    /\ pc = "sentiment_factor"
    /\ df' = [n \in 1..Len(df) |->
                [df[n] EXCEPT !.sentiment_factor = sentiment_factor(df[n].sentiment_score)]]
    /\ columns' = columns \cup {"sentiment_factor"}
    /\ pc' = "loop"
    /\ UNCHANGED <<classifier_vars, reformat_vars, coverage_vars>>
    /\ UNCHANGED <<input, err, clock, now_ms, final_severities,
                   anticipated_severities, calls, out>>

\* the row the loop of line 179 is at
LoopRow == Len(final_severities) + 1

\* line 188 and line 195
anticipated_sev(row) ==
    Mul(Mul(Mul(Mul(Rat(row.severity_level, 1), vol_factor(row.historical_volatility)),
                One), row.sentiment_factor), row.domain_factor)

\* line 194
final_sev(row, coverage_factor) ==
    Mul(Mul(Mul(Mul(Rat(row.severity_level, 1), vol_factor(row.historical_volatility)),
                coverage_factor), row.sentiment_factor), row.domain_factor)

\* the future branch filling final_severity with the anticipated value
ComposeFuture_fills_final ==
    /\ pc = "loop"
    /\ LoopRow <= Len(df)
    /\ df[LoopRow].future_event
    /\ final_severities' = Append(final_severities, anticipated_sev(df[LoopRow]))
    /\ anticipated_severities' =
          Append(anticipated_severities, anticipated_sev(df[LoopRow]))
    /\ UNCHANGED <<classifier_vars, reformat_vars, coverage_vars>>
    /\ UNCHANGED <<input, columns, df, pc, err, clock, now_ms, calls, out>>

\* lines 185-189, 197-198
ComposeFuture ==
    /\ pc = "loop"
    /\ LoopRow <= Len(df)
    /\ df[LoopRow].future_event
    /\ final_severities' = Append(final_severities, None)
    /\ anticipated_severities' =
          Append(anticipated_severities, anticipated_sev(df[LoopRow]))
    /\ UNCHANGED <<classifier_vars, reformat_vars, coverage_vars>>
    /\ UNCHANGED <<input, columns, df, pc, err, clock, now_ms, calls, out>>

\* lines 190-198
ComposePast ==
    /\ pc = "loop"
    /\ LoopRow <= Len(df)
    /\ ~df[LoopRow].future_event
    /\ \E response \in Responses :
          LET row == df[LoopRow]
              coverage_count == fetch_news_coverage(row.category, row.time_ms, response)
              coverage_factor == compute_coverage_factor(coverage_count)
          IN  /\ calls' = Append(calls, [keyword |-> row.category,
                                         event_time_ms |-> row.time_ms,
                                         src |-> row.src,
                                         returned |-> coverage_count])
              /\ IF coverage_factor.raises # ""
                 THEN /\ Raise("TypeError: coverage_count")
                      /\ UNCHANGED <<final_severities, anticipated_severities>>
                 ELSE /\ final_severities' =
                            Append(final_severities, final_sev(row, coverage_factor.value))
                      /\ anticipated_severities' =
                            Append(anticipated_severities, anticipated_sev(row))
                      /\ UNCHANGED <<pc, err>>
    /\ UNCHANGED <<classifier_vars, reformat_vars, coverage_vars>>
    /\ UNCHANGED <<input, columns, df, clock, now_ms, out>>

\* lines 200-217
Project ==
    /\ pc = "loop"
    /\ LoopRow > Len(df)
    /\ out' = [n \in 1..Len(df) |->
                 [src |-> df[n].src,
                  time_ms |-> df[n].time_ms,
                  severity_level |-> df[n].severity_level,
                  severity_category |-> df[n].severity_category,
                  headline |-> df[n].event,
                  category |-> df[n].category,
                  sentiment_score |-> df[n].sentiment_score,
                  historical_volatility |-> df[n].historical_volatility,
                  future_event |-> df[n].future_event,
                  final_severity |-> final_severities[n],
                  anticipated_severity |-> anticipated_severities[n]]]
    /\ pc' = "done"
    /\ UNCHANGED <<classifier_vars, reformat_vars, coverage_vars>>
    /\ UNCHANGED <<input, columns, df, err, clock, now_ms, final_severities,
                   anticipated_severities, calls>>

\* wall-clock time passing while the run is under way
Tick ==
    /\ pc \notin {"done", "raised"}
    /\ \E t \in ClockValues : t > clock /\ clock' = t
    /\ UNCHANGED <<classifier_vars, reformat_vars, coverage_vars>>
    /\ UNCHANGED <<input, columns, df, pc, err, now_ms, final_severities,
                   anticipated_severities, calls, out>>

EnrichNext ==
    \/ FilterRows
    \/ ConvertTimes
    \/ MapSeverity
    \/ InferCategories
    \/ ScoreSentiment
    \/ SampleNow
    \/ ApplyDomainFactor
    \/ ApplySentimentFactor
    \/ ComposeFuture
    \/ ComposePast
    \/ Project
    \/ Tick

ClassifierIdle ==
    /\ c_headline = <<>>
    /\ c_category = "unset"
    /\ c_calls = 0

EnrichIdle ==
    /\ input = <<>>
    /\ columns = {}
    /\ df = <<>>
    /\ pc = "idle"
    /\ err = ""
    /\ clock = 0
    /\ now_ms = None_ms
    /\ final_severities = <<>>
    /\ anticipated_severities = <<>>
    /\ calls = <<>>
    /\ out = <<>>

ReformatIdle ==
    /\ data = <<>>
    /\ r_pc = "idle"
    /\ r_next = 1
    /\ current_date = ""
    /\ current_time = ""
    /\ structured_rows = <<>>
    /\ df_raw = <<>>

CoverageIdle ==
    /\ k_keyword = ""
    /\ k_time = 0
    /\ k_response = [kind |-> "none", total |-> JsonNull]
    /\ k_pc = "idle"
    /\ k_params = [q |-> "", from |-> 0, to |-> 0]
    /\ k_count = JsonNull
    /\ k_factor = One

Init == EnrichInit /\ ClassifierIdle /\ ReformatIdle /\ CoverageIdle

Next == EnrichNext

Spec == Init /\ [][Next]_vars

-----------------------------------------------------------------------------
(* The classifier on its own *)

\* words the headlines given to the classifier are made of
Vocabulary == {
    <<"C","P","I">>,
    <<"g","d","p">>,
    <<"F","O","M","C">>,
    <<"I","n","t","e","r","e","s","t">>,
    <<"R","a","t","e">>,
    <<"D","e","c","i","s","i","o","n">>,
    <<"N","o","n","-","F","a","r","m">>,
    <<"E","m","p","l","o","y","m","e","n","t">>,
    <<"F","l","a","s","h">> }

Headlines == { Join(ws) : ws \in UNION { [1..n -> Vocabulary] : n \in 0..MaxWords } }

NoCategory == "unset"

ClassifierInit ==
    /\ c_headline \in Headlines
    /\ c_category = NoCategory
    /\ c_calls = 0
    /\ EnrichIdle
    /\ ReformatIdle
    /\ CoverageIdle

\* one call of infer_category on the headline; the caller may call again
CallInferCategory ==
    /\ c_calls < 2
    /\ c_category' = infer_category(c_headline)
    /\ c_calls' = c_calls + 1
    /\ UNCHANGED c_headline
    /\ UNCHANGED <<enrich_vars, reformat_vars, coverage_vars>>

ClassifierNext == CallInferCategory

SpecClassifier == ClassifierInit /\ [][ClassifierNext]_vars

-----------------------------------------------------------------------------
(* The input adapter: reformat_scraped_data *)

\* rows as the scraper's loop leaves them: the texts of the cells that had
\* any, a date cell first, then time, currency, impact, event
ScrapedRows == {
    <<"Wed Oct 2">>,
    <<"Wed Oct 2", "8:30am", "USD", "red", "ADP Non-Farm Employment Change">>,
    <<"Thu Oct 3", "2:00pm", "GBP", "orange", "Construction PMI">>,
    <<"10:00am", "EUR", "yellow", "CPI Flash Estimate y/y">>,
    <<"USD", "red", "Unemployment Claims">>,
    <<"EUR", "gray", "Bank Holiday">> }

ScrapedData == UNION { [1..n -> ScrapedRows] : n \in 0..MaxScraped }

ReformatInit ==
    /\ data \in ScrapedData
    /\ r_pc = "loop"
    /\ r_next = 1
    /\ current_date = ""
    /\ current_time = ""
    /\ structured_rows = <<>>
    /\ df_raw = <<>>
    /\ EnrichIdle
    /\ ClassifierIdle
    /\ CoverageIdle

\* row[-3:]
last3(row) == SubSeq(row, IF Len(row) > 3 THEN Len(row) - 2 ELSE 1, Len(row))

\* lines 19-20: the branch  len(row) == 1 or len(row) == 5
NewDate ==
    /\ r_pc = "loop"
    /\ r_next <= Len(data)
    /\ Len(data[r_next]) = 1 \/ Len(data[r_next]) = 5
    /\ current_date' = data[r_next][1]
    /\ r_next' = r_next + 1
    /\ UNCHANGED <<data, r_pc, current_time, structured_rows, df_raw>>
    /\ UNCHANGED <<classifier_vars, enrich_vars, coverage_vars>>

\* lines 21-22: the branch  len(row) == 4
NewTime ==
    /\ r_pc = "loop"
    /\ r_next <= Len(data)
    /\ ~(Len(data[r_next]) = 1 \/ Len(data[r_next]) = 5)
    /\ Len(data[r_next]) = 4
    /\ current_time' = data[r_next][1]
    /\ r_next' = r_next + 1
    /\ UNCHANGED <<data, r_pc, current_date, structured_rows, df_raw>>
    /\ UNCHANGED <<classifier_vars, enrich_vars, coverage_vars>>

\* lines 23-24: the branch  len(row) > 1
AppendEvent ==
    /\ r_pc = "loop"
    /\ r_next <= Len(data)
    /\ ~(Len(data[r_next]) = 1 \/ Len(data[r_next]) = 5)
    /\ Len(data[r_next]) # 4
    /\ Len(data[r_next]) > 1
    /\ structured_rows' =
          Append(structured_rows, <<current_date, current_time>> \o last3(data[r_next]))
    /\ r_next' = r_next + 1
    /\ UNCHANGED <<data, r_pc, current_date, current_time, df_raw>>
    /\ UNCHANGED <<classifier_vars, enrich_vars, coverage_vars>>

FrameColumns == <<"date", "time", "currency", "impact", "event">>

\* lines 26-31: pd.DataFrame pads the shorter lists up to the longest with None
\* and raises unless the longest has as many fields as there are labels
BuildFrame ==
    /\ r_pc = "loop"
    /\ r_next > Len(data)
    /\ LET widths == { Len(structured_rows[n]) : n \in 1..Len(structured_rows) }
       IN  IF structured_rows # <<>> /\ Len(FrameColumns) \notin widths
           THEN r_pc' = "raised" /\ df_raw' = df_raw
           ELSE /\ df_raw' = [n \in 1..Len(structured_rows) |->
                               [c \in 1..Len(FrameColumns) |->
                                   IF c <= Len(structured_rows[n])
                                   THEN structured_rows[n][c] ELSE "None"]]
                /\ r_pc' = "done"
    /\ UNCHANGED <<data, r_next, current_date, current_time, structured_rows>>
    /\ UNCHANGED <<classifier_vars, enrich_vars, coverage_vars>>

ReformatNext ==
    \/ NewDate
    \/ NewTime
    \/ AppendEvent
    \/ BuildFrame

SpecReformat == ReformatInit /\ [][ReformatNext]_vars

-----------------------------------------------------------------------------
(* The coverage lookup on its own: line 192 then line 193 *)

Categories == { EVENT_CATEGORIES[n].v : n \in 1..Len(EVENT_CATEGORIES) } \cup {"Other"}

CoverageInit ==
    /\ k_keyword \in Categories
    /\ k_time \in EventTimes
    /\ k_response \in Responses
    /\ k_pc = "fetch"
    /\ k_params = [q |-> "", from |-> 0, to |-> 0]
    /\ k_count = JsonNull
    /\ k_factor = One
    /\ EnrichIdle
    /\ ClassifierIdle
    /\ ReformatIdle

\* fetch_news_coverage(keyword, event_time_ms)
CallFetch ==
    /\ k_pc = "fetch"
    /\ k_params' = [q |-> k_keyword,
                    from |-> query_window(k_time).from,
                    to |-> query_window(k_time).to]
    /\ k_count' = fetch_news_coverage(k_keyword, k_time, k_response)
    /\ k_pc' = "factor"
    /\ UNCHANGED <<k_keyword, k_time, k_response, k_factor>>
    /\ UNCHANGED <<classifier_vars, enrich_vars, reformat_vars>>

\* compute_coverage_factor(coverage_count)
CallFactor ==
    /\ k_pc = "factor"
    /\ IF compute_coverage_factor(k_count).raises # ""
       THEN k_pc' = "raised" /\ k_factor' = k_factor
       ELSE k_pc' = "done" /\ k_factor' = compute_coverage_factor(k_count).value
    /\ UNCHANGED <<k_keyword, k_time, k_response, k_params, k_count>>
    /\ UNCHANGED <<classifier_vars, enrich_vars, reformat_vars>>

CoverageNext ==
    \/ CallFetch
    \/ CallFactor

SpecCoverage == CoverageInit /\ [][CoverageNext]_vars

-----------------------------------------------------------------------------
(* The claims *)

Ended == pc \in {"done", "raised"}

\* the rows a claim expects enrich_data to keep: allowed currency, allowed
\* impact, and a date and time label that read as "<day> <Mon> <d>" and a
\* 12-hour clock
Parses(raw) ==
    /\ Len(raw.date) >= 3
    /\ strptime_matches(raw.date[2], raw.date[3], raw.time)
Kept(raw) ==
    /\ raw.currency \in {"USD", "EUR", "GBP", "JPY", "AUD"}
    /\ raw.impact \in {"red", "orange", "yellow", "gray"}
    /\ Parses(raw)
KeptPlaces == { n \in 1..Len(input) : Kept(input[n]) }
Sources(rows) == [n \in 1..Len(rows) |-> rows[n].src]
IsIncreasing(seq) == \A m, n \in 1..Len(seq) : m < n => seq[m] < seq[n]
Range(seq) == { seq[n] : n \in 1..Len(seq) }

\* C1: enrich_data never raises, and what it returns holds exactly one record
\* for each input row with an allowed currency, an allowed impact and a
\* timestamp that parsed, in the order of the input, and none for any other row.
C1_CompletesWithOneRecordPerKeptRow ==
    /\ pc # "raised"
    /\ pc = "done" =>
          /\ Range(Sources(out)) = KeptPlaces
          /\ IsIncreasing(Sources(out))

\* C2: every record returned with future_event = true has no final_severity
\* and has anticipated_severity = severity_level x volatility_factor x
\* sentiment_factor x domain_factor; every record returned with
\* future_event = false has a final_severity.
C2_FutureRecordsHaveNoFinalSeverity ==
    \A n \in 1..Len(out) :
        /\ out[n].future_event =>
              /\ out[n].final_severity.null
              /\ ~out[n].anticipated_severity.null
              /\ out[n].anticipated_severity =
                    Mul(Rat(out[n].severity_level, 1),
                        Mul(vol_factor(out[n].historical_volatility),
                            Mul(df[n].sentiment_factor, df[n].domain_factor)))
        /\ ~out[n].future_event => ~out[n].final_severity.null

C2_Witness ==
    /\ pc = "done"
    /\ \E m, n \in 1..Len(out) :
          /\ out[m].future_event
          /\ df[m].domain_factor # One
          /\ df[m].sentiment_factor # One
          /\ ~out[n].future_event

\* the step function a claim gives for the coverage factor
ClaimedCoverageFactor(count) ==
    IF count = 0 THEN Rat(1, 1)
    ELSE IF count <= 5 THEN Rat(11, 10)
    ELSE Rat(12, 10)

CallOf(row) == CHOOSE c \in Range(calls) : c.src = row.src

\* C3: for every past row the loop has composed, with count the value the
\* lookup returned for it, final_severity = severity_level x volatility_factor
\* x coverage_factor(count) x sentiment_factor x domain_factor with
\* coverage_factor 1.0 at 0, 1.1 from 1 to 5 and 1.2 above 5;
\* anticipated_severity is that product without the coverage factor, and
\* final_severity = anticipated_severity x coverage_factor(count).
C3_PastSeverityIsTheProduct ==
    \A n \in 1..Len(final_severities) :
        ~df[n].future_event =>
            LET count == CallOf(df[n]).returned
                base == Mul(Rat(df[n].severity_level, 1),
                            Mul(vol_factor(df[n].historical_volatility),
                                Mul(df[n].sentiment_factor, df[n].domain_factor)))
            IN  /\ count.t = "int"
                /\ anticipated_severities[n] = base
                /\ count.v >= 0 =>
                      /\ final_severities[n] =
                            Mul(base, ClaimedCoverageFactor(count.v))
                      /\ final_severities[n] =
                            Mul(anticipated_severities[n], ClaimedCoverageFactor(count.v))
                /\ (pc = "done" =>
                      /\ out[n].final_severity = final_severities[n]
                      /\ out[n].anticipated_severity = anticipated_severities[n])

C3_Witness ==
    /\ pc = "done"
    /\ \E m, n \in 1..Len(out) :
          /\ ~out[m].future_event /\ CallOf(df[m]).returned = JsonInt(5)
          /\ ~out[n].future_event /\ CallOf(df[n]).returned = JsonInt(6)
          /\ out[m].final_severity # out[m].anticipated_severity
          /\ df[m].domain_factor # One

\* C4: convert_to_utc_ms does not raise; where the date label has fewer than
\* three tokens or the string does not match the pattern it returns None, the
\* run drops exactly those rows and goes on with the others.
C4_UnparseableRowsAreDroppedNotRaised ==
    /\ err # "ValueError: strptime"
    /\ "time(ms)" \in columns =>
          Range(Sources(df)) = KeptPlaces

\* C5: fetch_news_coverage returns a non-negative integer, 0 on a network
\* error, a timeout, a non-2xx answer, a malformed body and a body without
\* totalResults, and the factor computed from what it returned never raises.
C5_CoverageIsANaturalAndNeverAborts ==
    /\ k_pc # "raised"
    /\ k_pc \in {"factor", "done"} =>
          /\ k_count.t = "int"
          /\ k_count.v >= 0
          /\ k_response.kind # "totalResults" => k_count.v = 0

\* the domain factor a claim gives a row of a batch
ClaimedDomainFactor(row, batch) ==
    LET category == IF row.category \in {"RateDecision", "MonetaryPolicy"}
                    THEN Rat(120, 100)
                    ELSE IF row.category = "Inflation" THEN Rat(115, 100)
                    ELSE IF row.category = "NFP" THEN Rat(120, 100)
                    ELSE Rat(1, 1)
        geopolitical == IF contains_keyword(row.event, GEOPOLITICAL_KEYWORDS)
                        THEN Rat(125, 100) ELSE Rat(1, 1)
        commodity == IF contains_keyword(row.event, COMMODITY_KEYWORDS)
                     THEN Rat(110, 100) ELSE Rat(1, 1)
        dollar == IF row.event # <<>> /\ \E n \in 1..Len(batch) : batch[n].currency = "USD"
                  THEN Rat(110, 100) ELSE Rat(1, 1)
    IN  Mul(Mul(category, geopolitical), Mul(commodity, dollar))

\* C6: every row of the batch gets the domain factor 1.0 x 1.2 (RateDecision,
\* MonetaryPolicy) x 1.15 (Inflation) x 1.2 (NFP) x 1.25 (geopolitical keyword)
\* x 1.1 (commodity keyword) x 1.1 (headline not empty and some row of the
\* batch in USD), so {USD, red, "Fed FOMC Rate Decision"} gets 1.32.
C6_DomainFactorIsComputed ==
    /\ err # "KeyError: headline"
    /\ "domain_factor" \in columns =>
          \A n \in 1..Len(df) : df[n].domain_factor = ClaimedDomainFactor(df[n], df)

\* C7: the future_event flag of every row is event time > the one  now_ms
\* sampled, whatever the wall clock has come to since; so of two rows in one
\* batch, if the earlier is marked future the later is too.
C7_OneNowForTheWholeBatch ==
    "future_event" \in columns =>
        /\ now_ms # None_ms
        /\ now_ms <= clock
        /\ \A n \in 1..Len(df) : df[n].future_event = (df[n].time_ms > now_ms)
        /\ \A m, n \in 1..Len(df) :
              df[m].time_ms <= df[n].time_ms /\ df[m].future_event
              => df[n].future_event

\* a row still marked future although the wall clock has passed its time
\* while an earlier row's coverage lookup was under way
C7_Witness ==
    /\ pc = "loop"
    /\ Len(calls) > 0
    /\ LoopRow <= Len(df)
    /\ df[LoopRow].future_event
    /\ df[LoopRow].time_ms <= clock

\* the keyword table in the order a claim gives it
ClaimedTable == <<
    [k |-> <<"n","o","n","-","f","a","r","m"," ",
             "e","m","p","l","o","y","m","e","n","t">>, v |-> "NFP"],
    [k |-> <<"g","d","p">>, v |-> "GDP"],
    [k |-> <<"i","n","t","e","r","e","s","t"," ","r","a","t","e"," ",
             "d","e","c","i","s","i","o","n">>, v |-> "RateDecision"],
    [k |-> <<"c","p","i">>, v |-> "Inflation"],
    [k |-> <<"f","o","m","c">>, v |-> "MonetaryPolicy"] >>

ClaimedMatches(headline) ==
    { n \in 1..Len(ClaimedTable) : contains(lower(headline), ClaimedTable[n].k) }

\* C8: what infer_category returns for a headline, the first and the second
\* time, is the category of the first entry of the table (Non-Farm Employment,
\* GDP, Interest Rate Decision, CPI, FOMC) whose keyword is in the headline
\* whatever the case, and Other when none is; a headline with both CPI and GDP
\* gives GDP.
C8_FirstTableEntryWins ==
    c_calls > 0 =>
        LET matches == ClaimedMatches(c_headline)
        IN  /\ matches = {} => c_category = "Other"
            /\ matches # {} =>
                  \E n \in matches :
                      /\ \A m \in matches : n <= m
                      /\ c_category = ClaimedTable[n].v
            /\ {2, 4} \subseteq matches /\ 1 \notin matches => c_category = "GDP"

\* the headline "CPI gdp": CPI comes first in the text, GDP first in the table
C8_Witness ==
    /\ c_calls = 2
    /\ c_headline = <<"C","P","I"," ","g","d","p">>
    /\ c_category = "GDP"

\* C9: when the run has ended the lookup has been called exactly once for each
\* row marked past, with the row's category and event time, in row order, and
\* for no other row.
C9_OneLookupPerPastRow ==
    Ended /\ "future_event" \in columns =>
        LET past == SelectSeq(df, LAMBDA r : ~r.future_event)
        IN  /\ Len(calls) = Len(past)
            /\ \A n \in 1..Len(calls) :
                  /\ calls[n].src = past[n].src
                  /\ calls[n].keyword = past[n].category
                  /\ calls[n].event_time_ms = past[n].time_ms

\* whether a scraped row holds a date, a time, an event
HasDate(row) == Len(row) \in {1, 5}
HasTime(row) == Len(row) \in {4, 5}
HasEvent(row) == Len(row) \in {3, 4, 5}
TimeOf(row) == IF Len(row) = 5 THEN row[2] ELSE row[1]

\* the date and the time in force at place n of the scraped rows
DateAt(n) ==
    IF \E m \in 1..n : HasDate(data[m])
    THEN data[CHOOSE m \in 1..n : HasDate(data[m]) /\
                  \A l \in (m + 1)..n : ~HasDate(data[l])][1]
    ELSE ""
TimeAt(n) ==
    IF \E m \in 1..n : HasTime(data[m])
    THEN TimeOf(data[CHOOSE m \in 1..n : HasTime(data[m]) /\
                         \A l \in (m + 1)..n : ~HasTime(data[l])])
    ELSE ""

\* C10: reformat_scraped_data ends with one structured row for every scraped
\* row of length 3, 4 or 5, in order, each of the five fields date, time,
\* currency, impact, event, with the date and the time in force at that row.
C10_OneStructuredRowPerEvent ==
    r_pc \in {"done", "raised"} =>
        LET events == SelectSeq([n \in 1..Len(data) |-> n],
                                LAMBDA n : HasEvent(data[n]))
        IN  /\ r_pc = "done"
            /\ Len(structured_rows) = Len(events)
            /\ \A n \in 1..Len(structured_rows) :
                  structured_rows[n] =
                      <<DateAt(events[n]), TimeAt(events[n])>> \o last3(data[events[n]])

=============================================================================
